---- MODULE Spec2Model ----
(***************************************************************************)
(* Model of the build pipeline of lovable-clone:                           *)
(*   - the run supervisor of src/main.py (active_sockets, active_runs,     *)
(*     the WebSocket listener ws_listener and the POST /chat handler),     *)
(*   - the sandbox session manager of src/agent/service.py                 *)
(*     (Service.get_e2b_sandbox and Service.run_agent_stream),             *)
(*   - the LangGraph pipeline of src/agent/graph_builder.py and            *)
(*     src/agent/graph_nodes.py.                                           *)
(* Every `await` of the source is a point where the asyncio task may be    *)
(* suspended, so an action is the code between two awaits.                 *)
(***************************************************************************)
EXTENDS Integers, Sequences, FiniteSets, TLC

\* ------------------------------------------------------------------ bounds
MaxConns == 2
MaxTasks == 2
MaxHandles == 2
MaxStages == 1
MaxTime == 3600
MaxSteps == 10
MaxRetryInput == 9
MaxFiles == 2
MaxPathLen == 3
MaxSaves == 2
MaxAppends == 12

\* ------------------------------------------------------- program constants
sandbox_timeout == 1800
history_limit == 10

Projects == {"p1"}
Conns == 1..MaxConns
Tasks == 1..MaxTasks
Handles == 1..MaxHandles
Delays == {1800}
None == 0

VARIABLES
    chats,              \* projects that have a Chat row (db)
    active_sockets,     \* main.py active_sockets: project -> connection
    active_runs,        \* main.py active_runs: project -> agent task
    conn,               \* per WebSocket connection: position of ws_listener
    task,               \* per asyncio agent task: position and locals
    sandboxes,          \* Service.sandboxes: project -> sandbox handle
    project_timestamps, \* Service.project_timestamps: project -> time (0: no key)
    sbx,                \* the remote sandboxes ever created
    now,                \* time.time()
    state,              \* the GraphState of one workflow run
    node,               \* the node the graph runs next ("end": END reached)
    steps,              \* node invocations of the run so far
    event,              \* the last event run_agent_stream has sent for the run
    sandbox_files,      \* files of the sandbox that is snapshotted: path -> content
    disk_files,         \* project_dir on disk: local file name -> content
    metadata,           \* "files" of metadata.json (<<>> while not written)
    files_stored,       \* snapshot_project_files: the local list files_stored
    todo,               \* paths the running loop still has to visit
    restored_files,     \* files of the fresh sandbox: path -> content
    snap_pc,            \* position in snapshot / destroy / restore
    context_json,       \* context.json of the project (<<>>: no such file)
    saves,              \* calls of save_context so far
    appends,            \* calls of _save_conversation_history so far
    last_call           \* the last call on context.json and its arguments

runVars == <<chats, active_sockets, active_runs, conn, task, sandboxes,
             project_timestamps, sbx, now>>
pipeVars == <<state, node, steps, event>>
snapVars == <<sandbox_files, disk_files, metadata, files_stored, todo,
              restored_files, snap_pc>>
ctxVars == <<context_json, saves, appends, last_call>>
vars == <<chats, active_sockets, active_runs, conn, task, sandboxes,
          project_timestamps, sbx, now, state, node, steps, event,
          sandbox_files, disk_files, metadata, files_stored, todo,
          restored_files, snap_pc, context_json, saves, appends, last_call>>

NoTask == [pc |-> "none", proj |-> "p1", kind |-> "none", sock |-> None,
           cancel |-> FALSE, ctime |-> 0, h |-> None, stale |-> None,
           via |-> "none",
           sandbox |-> None, stages |-> 0, ev |-> "none", failed |-> "none"]

\* a task that has ended: its locals are gone
EndedTask(tk) == [NoTask EXCEPT !.pc = "done", !.proj = tk.proj]

NoSbx == [status |-> "none", proj |-> "p1", restored |-> FALSE]

\* tasks inside Service.run_agent_stream
RunningPcs == {"pre", "acq_extend", "acq_kill", "acq_create",
               "acq_settimeout", "acq_restore", "workflow", "post", "err"}

FreeTasks == {t \in Tasks : task[t].pc = "none"}
NewTask == CHOOSE t \in FreeTasks : \A u \in FreeTasks : t <= u
FreeHandles == {h \in Handles : sbx[h].status = "none"}
NewHandle == CHOOSE h \in FreeHandles : \A g \in FreeHandles : h <= g

InitRun ==
    /\ chats \in SUBSET Projects
    /\ active_sockets = [p \in Projects |-> None]
    /\ active_runs = [p \in Projects |-> None]
    /\ conn = [c \in Conns |-> [pc |-> "new", proj |-> "p1", refused |-> FALSE]]
    /\ task = [t \in Tasks |-> NoTask]
    /\ sandboxes = [p \in Projects |-> None]
    /\ project_timestamps = [p \in Projects |-> 0]
    /\ sbx = [h \in Handles |-> NoSbx]
    /\ now = sandbox_timeout

\* ---------------------------------------------------------------- main.py
\* POST /chat: a fresh chat id, the check of line 139, the Chat row and the
\* task registration of line 168.
create_project(p) ==
    /\ UNCHANGED <<pipeVars, snapVars, ctxVars>>
    /\ p \notin chats
    /\ FreeTasks # {}
    /\ active_runs[p] = None
    /\ chats' = chats \cup {p}
    /\ task' = [task EXCEPT ![NewTask] =
                   [NoTask EXCEPT !.pc = "created", !.proj = p, !.kind = "post"]]
    /\ active_runs' = [active_runs EXCEPT ![p] = NewTask]
    /\ UNCHANGED <<active_sockets, conn, sandboxes, project_timestamps, sbx, now>>

\* ws_listener lines 394-446: authentication, then the check of line 443.
ws_connect(c, p) ==
    /\ UNCHANGED <<pipeVars, snapVars, ctxVars>>
    /\ conn[c].pc = "new"
    /\ \A d \in Conns : d < c => conn[d].pc # "new"
    /\ p \in chats
    /\ conn' = [conn EXCEPT ![c] =
                   [pc |-> IF active_sockets[p] # None THEN "rejected" ELSE "accepting",
                    proj |-> p, refused |-> FALSE]]
    /\ UNCHANGED <<chats, active_sockets, active_runs, task, sandboxes,
                   project_timestamps, sbx, now>>

\* ws_listener lines 448-507: accept() returned, the socket is registered and
\* the listener waits in receive_json().
ws_accept(c) ==
    /\ UNCHANGED <<pipeVars, snapVars, ctxVars>>
    /\ conn[c].pc = "accepting"
    /\ active_sockets' = [active_sockets EXCEPT ![conn[c].proj] = c]
    /\ conn' = [conn EXCEPT ![c].pc = "recv"]
    /\ UNCHANGED <<chats, active_runs, task, sandboxes, project_timestamps, sbx, now>>

\* the rows of the users table a chat_message can find: the special account
\* or not, the tokens left, and whether tokens_reset_at is unset or has passed
Users == [special : BOOLEAN, tokens_remaining : 0..2, reset_due : BOOLEAN]

\* can_make_query and use_token: the tokens are set to 2 when the reset is due
tokens_reset(user) ==
    IF ~user.special /\ user.reset_due
      THEN [user EXCEPT !.tokens_remaining = 2, !.reset_due = FALSE]
      ELSE user

\* User.can_make_query
can_make_query(user) ==
    \/ user.special
    \/ user.reset_due
    \/ user.tokens_remaining > 0

\* User.use_token
use_token(user) ==
    \/ user.special
    \/ tokens_reset(user).tokens_remaining > 0

\* ws_listener lines 523-561: the token check of a chat_message.  Every
\* branch ends in a `break` that leaves the `async for db in get_db()` loop.
query_refused(user) ==
    \/ ~can_make_query(user)
    \/ ~use_token(tokens_reset(user))

\* ws_listener lines 507-570: a chat_message with a prompt is received from
\* the user whose row is `user`; after the token check the listener goes on
\* to line 563, whose check rejects the message or lets it go on to the
\* awaits of lines 573-582.
ws_chat_message(c, user) ==
    /\ UNCHANGED <<pipeVars, snapVars, ctxVars>>
    /\ conn[c].pc = "recv"
    /\ conn' = [conn EXCEPT ![c] =
                   IF active_runs[conn[c].proj] # None
                     THEN [@ EXCEPT !.pc = "recv", !.refused = FALSE]
                     ELSE [@ EXCEPT !.pc = "admit", !.refused = query_refused(user)]]
    /\ UNCHANGED <<chats, active_sockets, active_runs, task, sandboxes,
                   project_timestamps, sbx, now>>

\* ws_listener lines 585-622: the task is created and registered.
ws_register(c) ==
    /\ UNCHANGED <<pipeVars, snapVars, ctxVars>>
    /\ conn[c].pc = "admit"
    /\ FreeTasks # {}
    /\ task' = [task EXCEPT ![NewTask] =
                   [NoTask EXCEPT !.pc = "created", !.proj = conn[c].proj,
                                  !.sock = c, !.kind = "ws"]]
    /\ active_runs' = [active_runs EXCEPT ![conn[c].proj] = NewTask]
    /\ conn' = [conn EXCEPT ![c].pc = "recv", ![c].refused = FALSE]
    /\ UNCHANGED <<chats, active_sockets, sandboxes, project_timestamps, sbx, now>>

\* a disconnect that also tears down the sandbox session of the project
ws_disconnect_closing_session(c) ==
    /\ UNCHANGED <<pipeVars, snapVars, ctxVars>>
    /\ conn[c].pc = "recv"
    /\ LET p == conn[c].proj
           r == active_runs[p]
       IN /\ active_sockets' = [active_sockets EXCEPT ![p] = None]
          /\ active_runs' = [active_runs EXCEPT ![p] = None]
          /\ task' = IF r # None /\ task[r].pc # "done"
                        THEN [task EXCEPT ![r].cancel = TRUE]
                        ELSE task
          /\ sandboxes' = [sandboxes EXCEPT ![p] = None]
          /\ sbx' = IF sandboxes[p] # None
                       THEN [sbx EXCEPT ![sandboxes[p]].status = "killed"]
                       ELSE sbx
    /\ conn' = [conn EXCEPT ![c].pc = "closed"]
    /\ UNCHANGED <<chats, project_timestamps, now>>

\* ws_listener lines 624-630: the client went away; the finally block.
ws_disconnect(c) ==
    /\ UNCHANGED <<pipeVars, snapVars, ctxVars>>
    /\ conn[c].pc = "recv"
    /\ LET p == conn[c].proj
           r == active_runs[p]
       IN /\ active_sockets' = [active_sockets EXCEPT ![p] = None]
          /\ active_runs' = [active_runs EXCEPT ![p] = None]
          /\ task' = IF r # None /\ task[r].pc # "done"
                        THEN [task EXCEPT ![r].cancel = TRUE]
                        ELSE task
    /\ conn' = [conn EXCEPT ![c].pc = "closed"]
    /\ UNCHANGED <<chats, sandboxes, project_timestamps, sbx, now>>

\* ------------------------------------------------------ agent/service.py
\* get_e2b_sandbox line 48: the session is still valid.
within_timeout(time_elapsed) == time_elapsed < sandbox_timeout

\* get_e2b_sandbox lines 41-61, run without suspension up to the first await:
\* extend the live session, kill the expired one, or create a new one.
acquire_begin(tk) ==
    LET cur == sandboxes[tk.proj]
        time_elapsed == now - project_timestamps[tk.proj]
    IN IF cur # None
         THEN IF within_timeout(time_elapsed)
                THEN [tk EXCEPT !.pc = "acq_extend", !.ctime = now, !.h = cur,
                                !.via = "reuse"]
                ELSE [tk EXCEPT !.pc = "acq_kill", !.ctime = now, !.h = cur,
                                !.stale = cur, !.via = "expired"]
         ELSE [tk EXCEPT !.pc = "acq_create", !.ctime = now, !.via = "absent"]

\* run_agent_stream lines 350-364: an exception inside the try block is caught
\* and the error event is sent (the send itself is guarded).
raise_in_run(tk, what) ==
    [tk EXCEPT !.pc = "err", !.failed = what, !.ev = "error", !.via = "none",
               !.ctime = 0, !.h = None, !.stale = None, !.sandbox = None]

\* get_e2b_sandbox lines 52 and 71, then run_agent_stream lines 287-314:
\* `return self.sandboxes[id]` and the workflow is started with that handle.
acquire_return(tk, reg) ==
    IF reg[tk.proj] = None
      THEN raise_in_run(tk, "keyerror")
      ELSE [tk EXCEPT !.pc = "workflow", !.sandbox = reg[tk.proj], !.h = None,
                      !.stale = None, !.ctime = 0, !.via = "none"]

\* agent_task, first step of the asyncio task.  A task cancelled before its
\* first step never enters its body.
\* The two agent_task bodies differ only up to their call of
\* run_agent_stream, where `kind` is dropped; `via` lives as long as the call
\* of get_e2b_sandbox.
run_start(t) ==
    /\ UNCHANGED <<pipeVars, snapVars, ctxVars>>
    /\ task[t].pc = "created"
    /\ task' = [task EXCEPT ![t] =
                   IF task[t].cancel THEN EndedTask(task[t])
                   ELSE IF task[t].kind = "post"
                          THEN [task[t] EXCEPT !.pc = "wait_socket"]
                          ELSE [task[t] EXCEPT !.pc = "pre", !.kind = "none"]]
    /\ UNCHANGED <<chats, active_sockets, active_runs, conn, sandboxes,
                   project_timestamps, sbx, now>>

\* create_project.agent_task lines 155-158: poll until a socket is attached.
run_wait_socket(t) ==
    /\ UNCHANGED <<pipeVars, snapVars, ctxVars>>
    /\ task[t].pc = "wait_socket"
    /\ ~task[t].cancel
    /\ active_sockets[task[t].proj] # None
    /\ task' = [task EXCEPT ![t].pc = "pre", ![t].kind = "none",
                            ![t].sock = active_sockets[task[t].proj]]
    /\ UNCHANGED <<chats, active_sockets, active_runs, conn, sandboxes,
                   project_timestamps, sbx, now>>

\* run_agent_stream lines 271-285: store the user message, send "started",
\* enter get_e2b_sandbox.  _store_message (line 271) or socket.send_json
\* (line 278, not guarded) can raise.
run_pre(t, out) ==
    /\ UNCHANGED <<pipeVars, snapVars, ctxVars>>
    /\ task[t].pc = "pre"
    /\ ~task[t].cancel
    /\ task' = [task EXCEPT ![t] =
                   CASE out = "ok" -> acquire_begin([task[t] EXCEPT !.ev = "started"])
                     [] out = "store" -> raise_in_run(task[t], "pre")
                     [] out = "send" -> raise_in_run(task[t], "started")]
    /\ UNCHANGED <<chats, active_sockets, active_runs, conn, sandboxes,
                   project_timestamps, sbx, now>>

\* get_e2b_sandbox lines 49-52: set_timeout on the live session returned.
acquire_extend(t, ok) ==
    /\ UNCHANGED <<pipeVars, snapVars, ctxVars>>
    /\ task[t].pc = "acq_extend"
    /\ ~task[t].cancel
    /\ IF ok
         THEN /\ project_timestamps' =
                     [project_timestamps EXCEPT ![task[t].proj] = task[t].ctime]
              /\ task' = [task EXCEPT ![t] = acquire_return(task[t], sandboxes)]
         ELSE /\ task' = [task EXCEPT ![t] = raise_in_run(task[t], "extend")]
              /\ UNCHANGED project_timestamps
    /\ UNCHANGED <<chats, active_sockets, active_runs, conn, sandboxes, sbx, now>>

\* get_e2b_sandbox lines 56-61: kill() returned; the entry is deleted and the
\* creation of the new sandbox starts.
acquire_kill(t, ok) ==
    /\ UNCHANGED <<pipeVars, snapVars, ctxVars>>
    /\ task[t].pc = "acq_kill"
    /\ ~task[t].cancel
    /\ IF ok
         THEN /\ sbx' = [sbx EXCEPT ![task[t].h].status = "killed"]
              /\ IF sandboxes[task[t].proj] = None
                   THEN /\ task' = [task EXCEPT ![t] = raise_in_run(task[t], "keyerror")]
                        /\ UNCHANGED sandboxes
                   ELSE /\ task' = [task EXCEPT ![t].pc = "acq_create"]
                        /\ sandboxes' = [sandboxes EXCEPT ![task[t].proj] = None]
         ELSE /\ task' = [task EXCEPT ![t] = raise_in_run(task[t], "kill")]
              /\ UNCHANGED <<sandboxes, sbx>>
    /\ UNCHANGED <<chats, active_sockets, active_runs, conn, project_timestamps, now>>

\* get_e2b_sandbox lines 61-64: AsyncSandbox.create returned; the handle is
\* registered and set_timeout is called on it.
acquire_create(t, ok) ==
    /\ UNCHANGED <<pipeVars, snapVars, ctxVars>>
    /\ task[t].pc = "acq_create"
    /\ ~task[t].cancel
    /\ IF ok
         THEN /\ FreeHandles # {}
              /\ sbx' = [sbx EXCEPT ![NewHandle] =
                            [status |-> "live", proj |-> task[t].proj, restored |-> FALSE]]
              /\ sandboxes' = [sandboxes EXCEPT ![task[t].proj] = NewHandle]
              /\ task' = [task EXCEPT ![t].pc = "acq_settimeout", ![t].h = NewHandle]
         ELSE /\ task' = [task EXCEPT ![t] = raise_in_run(task[t], "create")]
              /\ UNCHANGED <<sandboxes, sbx>>
    /\ UNCHANGED <<chats, active_sockets, active_runs, conn, project_timestamps, now>>

\* get_e2b_sandbox lines 64-69: set_timeout returned; the timestamp is set and
\* _restore_files_from_disk is called on self.sandboxes[id].
acquire_settimeout(t, ok) ==
    /\ UNCHANGED <<pipeVars, snapVars, ctxVars>>
    /\ task[t].pc = "acq_settimeout"
    /\ ~task[t].cancel
    /\ IF ok
         THEN /\ project_timestamps' =
                     [project_timestamps EXCEPT ![task[t].proj] = task[t].ctime]
              /\ task' = [task EXCEPT ![t] =
                             IF sandboxes[task[t].proj] = None
                               THEN raise_in_run(task[t], "keyerror")
                               ELSE [task[t] EXCEPT !.pc = "acq_restore",
                                                    !.h = sandboxes[task[t].proj]]]
         ELSE /\ task' = [task EXCEPT ![t] = raise_in_run(task[t], "settimeout")]
              /\ UNCHANGED project_timestamps
    /\ UNCHANGED <<chats, active_sockets, active_runs, conn, sandboxes, sbx, now>>

\* get_e2b_sandbox lines 69-71: _restore_files_from_disk returned (or raised
\* outside its per-file handler), then `return self.sandboxes[id]`.
acquire_restore(t, ok) ==
    /\ UNCHANGED <<pipeVars, snapVars, ctxVars>>
    /\ task[t].pc = "acq_restore"
    /\ ~task[t].cancel
    /\ IF ok
         THEN /\ sbx' = [sbx EXCEPT ![task[t].h].restored = TRUE]
              /\ task' = [task EXCEPT ![t] = acquire_return(task[t], sandboxes)]
         ELSE /\ task' = [task EXCEPT ![t] = raise_in_run(task[t], "restore")]
              /\ UNCHANGED sbx
    /\ UNCHANGED <<chats, active_sockets, active_runs, conn, sandboxes,
                   project_timestamps, now>>

\* run_workflow line 73: one node of the graph runs inside ainvoke.
workflow_stage(t) ==
    /\ UNCHANGED <<pipeVars, snapVars, ctxVars>>
    /\ task[t].pc = "workflow"
    /\ ~task[t].cancel
    /\ task[t].stages < MaxStages
    /\ task' = [task EXCEPT ![t].stages = @ + 1]
    /\ UNCHANGED <<chats, active_sockets, active_runs, conn, sandboxes,
                   project_timestamps, sbx, now>>

\* run_workflow lines 73-86: ainvoke returned (or its exception was turned
\* into an error state), run_agent_stream goes on with lines 316-348.
workflow_return(t) ==
    /\ UNCHANGED <<pipeVars, snapVars, ctxVars>>
    /\ task[t].pc = "workflow"
    /\ ~task[t].cancel
    /\ task[t].stages >= 1
    /\ task' = [task EXCEPT ![t].pc = "post"]
    /\ UNCHANGED <<chats, active_sockets, active_runs, conn, sandboxes,
                   project_timestamps, sbx, now>>

\* mutant: the `finally` of agent_task forgets the pop
unregister_forgotten(p) == active_runs

\* agent_task `finally`: active_runs.pop(id, None) (main.py lines 166, 620).
unregister(p) == [active_runs EXCEPT ![p] = None]

\* run_agent_stream lines 316-348: completion message and "completed" event;
\* then the task ends.
run_post(t, ok) ==
    /\ UNCHANGED <<pipeVars, snapVars, ctxVars>>
    /\ task[t].pc = "post"
    /\ ~task[t].cancel
    /\ IF ok
         THEN /\ task' = [task EXCEPT ![t] = EndedTask(task[t])]
              /\ active_runs' = unregister(task[t].proj)
         ELSE /\ task' = [task EXCEPT ![t] = raise_in_run(task[t], "post")]
              /\ UNCHANGED active_runs
    /\ UNCHANGED <<chats, active_sockets, conn, sandboxes, project_timestamps, sbx, now>>

\* run_agent_stream lines 358-364: the send of the error event returned or
\* failed (swallowed); the task ends.
run_err(t) ==
    /\ UNCHANGED <<pipeVars, snapVars, ctxVars>>
    /\ task[t].pc = "err"
    /\ ~task[t].cancel
    /\ task' = [task EXCEPT ![t] = EndedTask(task[t])]
    /\ active_runs' = unregister(task[t].proj)
    /\ UNCHANGED <<chats, active_sockets, conn, sandboxes, project_timestamps, sbx, now>>

\* CancelledError is raised at the await the task is suspended in; it passes
\* every `except Exception` and runs the `finally` of agent_task.
run_cancelled(t) ==
    /\ UNCHANGED <<pipeVars, snapVars, ctxVars>>
    /\ task[t].pc \in RunningPcs \cup {"wait_socket"}
    /\ task[t].cancel
    /\ task' = [task EXCEPT ![t] = EndedTask(task[t])]
    /\ active_runs' = unregister(task[t].proj)
    /\ UNCHANGED <<chats, active_sockets, conn, sandboxes, project_timestamps, sbx, now>>

\* time.time() advances.
Tick(d) ==
    /\ UNCHANGED <<pipeVars, snapVars, ctxVars>>
    /\ now + d <= MaxTime
    /\ now' = now + d
    /\ UNCHANGED <<chats, active_sockets, active_runs, conn, task, sandboxes,
                   project_timestamps, sbx>>

NextRun ==
    \/ \E p \in Projects : create_project(p)
    \/ \E c \in Conns, p \in Projects : ws_connect(c, p)
    \/ \E c \in Conns : ws_accept(c)
    \/ \E c \in Conns, user \in Users : ws_chat_message(c, user)
    \/ \E c \in Conns : ws_register(c)
    \/ \E c \in Conns : ws_disconnect(c)
    \/ \E t \in Tasks : run_start(t)
    \/ \E t \in Tasks : run_wait_socket(t)
    \/ \E t \in Tasks, out \in {"ok", "store", "send"} : run_pre(t, out)
    \/ \E t \in Tasks, ok \in BOOLEAN : acquire_extend(t, ok)
    \/ \E t \in Tasks, ok \in BOOLEAN : acquire_kill(t, ok)
    \/ \E t \in Tasks, ok \in BOOLEAN : acquire_create(t, ok)
    \/ \E t \in Tasks, ok \in BOOLEAN : acquire_settimeout(t, ok)
    \/ \E t \in Tasks, ok \in BOOLEAN : acquire_restore(t, ok)
    \/ \E t \in Tasks : workflow_stage(t)
    \/ \E t \in Tasks : workflow_return(t)
    \/ \E t \in Tasks, ok \in BOOLEAN : run_post(t, ok)
    \/ \E t \in Tasks : run_err(t)
    \/ \E t \in Tasks : run_cancelled(t)
    \/ \E d \in Delays : Tick(d)


\* ------------------------------- agent/service.py: snapshot and restore
PathChars == {"a", "/", "_"}

\* paths of files below a snapshot root, relative to it: sequences of
\* characters that start and end with a letter and have no empty segment
FilePaths ==
    {q \in UNION {[1..n -> PathChars] : n \in 1..MaxPathLen} :
        /\ q[1] = "a"
        /\ q[Len(q)] = "a"
        /\ \A i \in 1..(Len(q) - 1) : ~(q[i] = "/" /\ q[i + 1] = "/")}

NoFile == <<>>

\* every file holds a content of its own, named after its path
ContentOf(q) == q

\* the content of a file after the agent has edited it
EditedContentOf(q) == Append(q, "+")

\* file_path.replace("/", "_") (lines 103, 193, 211)
local_file(file_path) ==
    [i \in 1..Len(file_path) |-> IF file_path[i] = "/" THEN "_" ELSE file_path[i]]

LocalNames == {local_file(q) : q \in FilePaths}

\* q is the path of a directory that holds r
IsDirOf(q, r) ==
    /\ Len(q) < Len(r)
    /\ SubSeq(r, 1, Len(q)) = q
    /\ r[Len(q) + 1] = "/"

\* the sets of files a sandbox can hold: at most MaxFiles, none both file and
\* directory
FileSets ==
    {F \in {{t[i] : i \in 1..MaxFiles} : t \in [1..MaxFiles -> FilePaths]} \cup {{}} :
        \A q, r \in F : ~IsDirOf(q, r)}

\* the orders in which `find` can list the files of F
Orderings(F) ==
    {o \in [1..Cardinality(F) -> F] : \A i, j \in 1..Cardinality(F) : o[i] = o[j] => i = j}

\* no snapshot or restore is going on
IdleSnap ==
    /\ sandbox_files = [q \in FilePaths |-> NoFile]
    /\ disk_files = [l \in LocalNames |-> NoFile]
    /\ metadata = <<>>
    /\ files_stored = <<>>
    /\ todo = <<>>
    /\ restored_files = [q \in FilePaths |-> NoFile]
    /\ snap_pc = "idle"

\* snapshot_project_files lines 163-202: the sandbox holds a file set F, the
\* project directory is empty and `find` has listed the files
InitSnap ==
    /\ \E F \in FileSets :
          /\ sandbox_files = [q \in FilePaths |-> IF q \in F THEN ContentOf(q) ELSE NoFile]
          /\ todo \in Orderings(F)
    /\ disk_files = [l \in LocalNames |-> NoFile]
    /\ metadata = <<>>
    /\ files_stored = <<>>
    /\ restored_files = [q \in FilePaths |-> NoFile]
    /\ snap_pc = "snapshot"

\* snapshot_project_files lines 198-202 and 219-220: `find` failed; the handler
\* of the outer try skips the whole directory
snapshot_find_failed ==
    /\ snap_pc = "snapshot"
    /\ files_stored = <<>>
    /\ todo # <<>>
    /\ todo' = <<>>
    /\ UNCHANGED <<sandbox_files, disk_files, metadata, files_stored,
                   restored_files, snap_pc>>
    /\ UNCHANGED <<runVars, pipeVars, ctxVars>>

\* a snapshot that lists a file whether or not it could be read
snapshot_file_listing_failures(ok) ==
    /\ snap_pc = "snapshot"
    /\ todo # <<>>
    /\ LET file_path == Head(todo) IN
         /\ disk_files' = IF ok
                            THEN [disk_files EXCEPT ![local_file(file_path)] =
                                     sandbox_files[file_path]]
                            ELSE disk_files
         /\ files_stored' = Append(files_stored, file_path)
    /\ todo' = Tail(todo)
    /\ UNCHANGED <<sandbox_files, metadata, restored_files, snap_pc>>
    /\ UNCHANGED <<runVars, pipeVars, ctxVars>>

\* snapshot_project_files lines 204-218: one file of the listing is read and
\* written to disk under its local name, or its read fails and it is skipped
snapshot_file(ok) ==
    /\ snap_pc = "snapshot"
    /\ todo # <<>>
    /\ LET file_path == Head(todo) IN
         IF ok
           THEN /\ disk_files' = [disk_files EXCEPT ![local_file(file_path)] =
                                     sandbox_files[file_path]]
                /\ files_stored' = Append(files_stored, file_path)
           ELSE UNCHANGED <<disk_files, files_stored>>
    /\ todo' = Tail(todo)
    /\ UNCHANGED <<sandbox_files, metadata, restored_files, snap_pc>>
    /\ UNCHANGED <<runVars, pipeVars, ctxVars>>

\* snapshot_project_files lines 222-229: metadata.json is written
snapshot_metadata ==
    /\ snap_pc = "snapshot"
    /\ todo = <<>>
    /\ metadata' = files_stored
    /\ snap_pc' = "snapshotted"
    /\ UNCHANGED <<sandbox_files, disk_files, files_stored, todo, restored_files>>
    /\ UNCHANGED <<runVars, pipeVars, ctxVars>>

\* snapshot_project_files lines 163-202, called again on the same project: the
\* agent has edited one file since the first snapshot; files_stored starts
\* empty, the project directory and metadata.json are those the first snapshot
\* left
snapshot_again ==
    /\ snap_pc = "snapshotted"
    /\ \A q \in FilePaths : sandbox_files[q] \in {NoFile, ContentOf(q)}
    /\ \E e \in {q \in FilePaths : sandbox_files[q] # NoFile} :
          sandbox_files' = [sandbox_files EXCEPT ![e] = EditedContentOf(e)]
    /\ todo' \in Orderings({q \in FilePaths : sandbox_files[q] # NoFile})
    /\ files_stored' = <<>>
    /\ snap_pc' = "snapshot"
    /\ UNCHANGED <<disk_files, metadata, restored_files>>
    /\ UNCHANGED <<runVars, pipeVars, ctxVars>>

\* snapshot_project_files lines 184-218: the coroutine is cancelled, or the
\* process dies, at one of the awaits of the loop; CancelledError is no
\* Exception, so neither handler catches it and lines 222-229 never run
snapshot_cancelled ==
    /\ snap_pc = "snapshot"
    /\ todo # <<>>
    /\ snap_pc' = "cancelled"
    /\ UNCHANGED <<sandbox_files, disk_files, metadata, files_stored, todo,
                   restored_files>>
    /\ UNCHANGED <<runVars, pipeVars, ctxVars>>

\* the sandbox is destroyed and _restore_files_from_disk (lines 80-98) starts
\* on a fresh one: metadata.json, when there is one, is read
restore_begin ==
    /\ snap_pc \in {"snapshotted", "cancelled"}
    /\ todo' = metadata
    /\ snap_pc' = "restore"
    /\ UNCHANGED <<sandbox_files, disk_files, metadata, files_stored, restored_files>>
    /\ UNCHANGED <<runVars, pipeVars, ctxVars>>

\* a restore that gives up at the first file it cannot restore
restore_file_aborting(ok) ==
    /\ snap_pc = "restore"
    /\ todo # <<>>
    /\ LET file_path == Head(todo)
           content == disk_files[local_file(file_path)]
       IN IF ok /\ content # NoFile
            THEN /\ restored_files' = [restored_files EXCEPT ![file_path] = content]
                 /\ todo' = Tail(todo)
            ELSE /\ restored_files' = restored_files
                 /\ todo' = <<>>
    /\ UNCHANGED <<sandbox_files, disk_files, metadata, files_stored, snap_pc>>
    /\ UNCHANGED <<runVars, pipeVars, ctxVars>>

\* _restore_files_from_disk lines 100-113: one listed path is read from its
\* local file and written to the sandbox; a missing local file or a failed
\* read or write skips it
restore_file(ok) ==
    /\ snap_pc = "restore"
    /\ todo # <<>>
    /\ LET file_path == Head(todo)
           content == disk_files[local_file(file_path)]
       IN restored_files' =
            IF ok /\ content # NoFile
              THEN [restored_files EXCEPT ![file_path] = content]
              ELSE restored_files
    /\ todo' = Tail(todo)
    /\ UNCHANGED <<sandbox_files, disk_files, metadata, files_stored, snap_pc>>
    /\ UNCHANGED <<runVars, pipeVars, ctxVars>>

\* _restore_files_from_disk lines 115-125: the loop is over
restore_end ==
    /\ snap_pc = "restore"
    /\ todo = <<>>
    /\ snap_pc' = "restored"
    /\ UNCHANGED <<sandbox_files, disk_files, metadata, files_stored, todo,
                   restored_files>>
    /\ UNCHANGED <<runVars, pipeVars, ctxVars>>

NextSnap ==
    \/ snapshot_find_failed
    \/ \E ok \in BOOLEAN : snapshot_file(ok)
    \/ snapshot_metadata
    \/ snapshot_again
    \/ snapshot_cancelled
    \/ restore_begin
    \/ \E ok \in BOOLEAN : restore_file(ok)
    \/ restore_end

\* --------------------------------------------------- agent/graph_nodes.py
EmptyDict == [c \in {} |-> <<>>]
Dict1(k, v) == [c \in {k} |-> v]

\* mutant: the counters of an earlier run are carried into the new run
initial_state_carried ==
    [plan |-> "null", files_created |-> <<>>, files_modified |-> <<>>,
     current_errors |-> EmptyDict, validation_errors |-> <<>>,
     runtime_errors |-> <<>>,
     retry_count |-> [validation_errors |-> 8, runtime_errors |-> 0],
     max_retries |-> 3, current_node |-> "", execution_log |-> <<>>,
     success |-> FALSE, error_message |-> "null"]

\* run_agent_stream lines 287-308
initial_state ==
    [plan |-> "null", files_created |-> <<>>, files_modified |-> <<>>,
     current_errors |-> EmptyDict, validation_errors |-> <<>>,
     runtime_errors |-> <<>>,
     retry_count |-> [validation_errors |-> 0, runtime_errors |-> 0],
     max_retries |-> 3, current_node |-> "", execution_log |-> <<>>,
     success |-> FALSE, error_message |-> "null"]

LogEntry(n, status) == [node |-> n, status |-> status]

\* sum(retry_count.values())
total_retries(st) ==
    st.retry_count.validation_errors + st.retry_count.runtime_errors

\* planner_node: the try block (lines 174-199) or the handler (lines 201-215)
planner_node(st, out) ==
    IF out = "completed"
      THEN [st EXCEPT !.plan = "plan", !.current_node = "planner",
                      !.execution_log = Append(@, LogEntry("planner", "completed"))]
      ELSE [st EXCEPT !.current_node = "planner", !.error_message = "planner_error",
                      !.execution_log = Append(@, LogEntry("planner", "error"))]

\* mutant: a completed Build declares the run successful
builder_node_optimistic(st, out, files) ==
    IF out = "completed"
      THEN [st EXCEPT !.files_created = files, !.files_modified = <<>>,
                      !.current_node = "builder", !.success = TRUE,
                      !.execution_log = Append(@, LogEntry("builder", "completed"))]
      ELSE [st EXCEPT !.current_node = "builder", !.error_message = "builder_error",
                      !.execution_log = Append(@, LogEntry("builder", "error"))]

\* builder_node: completion (lines 439-463), TimeoutError (465-491), exception
\* of the agent (493-522), exception outside the agent run (524-538)
builder_node(st, out, files) ==
    CASE out = "completed" ->
           [st EXCEPT !.files_created = files, !.files_modified = <<>>,
                      !.current_node = "builder",
                      !.execution_log = Append(@, LogEntry("builder", "completed"))]
      [] out = "timeout" ->
           [st EXCEPT !.files_created = <<>>, !.files_modified = <<>>,
                      !.current_node = "builder",
                      !.execution_log = Append(@, LogEntry("builder", "timeout"))]
      [] out = "error" ->
           [st EXCEPT !.files_created = <<>>, !.files_modified = <<>>,
                      !.current_node = "builder",
                      !.execution_log = Append(@, LogEntry("builder", "error"))]
      [] OTHER ->
           [st EXCEPT !.current_node = "builder", !.error_message = "builder_error",
                      !.execution_log = Append(@, LogEntry("builder", "error"))]

\* code_validator_node: completion (lines 748-782) with the list the agent loop
\* built, TimeoutError (784-805), any other exception (807-829)
code_validator_node(st, out, validation_errors) ==
    CASE out = "completed" ->
           LET counted ==
                 IF validation_errors # <<>>
                   THEN [st EXCEPT !.retry_count.validation_errors = @ + 1,
                                   !.current_errors =
                                       Dict1("validation_errors", validation_errors)]
                   ELSE st
           IN [counted EXCEPT !.validation_errors = validation_errors,
                              !.current_node = "code_validator",
                              !.execution_log =
                                  Append(@, LogEntry("code_validator", "completed"))]
      [] out = "timeout" ->
           [st EXCEPT !.validation_errors = <<"timeout">>,
                      !.current_node = "code_validator"]
      [] OTHER ->
           [st EXCEPT !.current_node = "code_validator",
                      !.error_message = "code_validator_error",
                      !.validation_errors = <<"validator_error">>,
                      !.execution_log = Append(@, LogEntry("code_validator", "error"))]

\* mutant: a clean Check does not set success
application_checker_node_silent(st, out, runtime_errors) ==
    IF out = "completed"
      THEN LET counted ==
                 IF runtime_errors # <<>>
                   THEN [st EXCEPT !.retry_count.runtime_errors = @ + 1,
                                   !.current_errors =
                                       Dict1("runtime_errors", runtime_errors)]
                   ELSE st
           IN [counted EXCEPT !.runtime_errors = runtime_errors,
                              !.current_node = "application_checker",
                              !.execution_log =
                                  Append(@, LogEntry("application_checker", "completed"))]
      ELSE [st EXCEPT !.current_node = "application_checker",
                      !.error_message = "application_checker_error",
                      !.execution_log =
                          Append(@, LogEntry("application_checker", "error"))]

\* application_checker_node: completion (lines 886-919) or exception (921-935)
application_checker_node(st, out, runtime_errors) ==
    IF out = "completed"
      THEN LET counted ==
                 IF runtime_errors # <<>>
                   THEN [st EXCEPT !.retry_count.runtime_errors = @ + 1,
                                   !.current_errors =
                                       Dict1("runtime_errors", runtime_errors)]
                   ELSE [st EXCEPT !.success = TRUE]
           IN [counted EXCEPT !.runtime_errors = runtime_errors,
                              !.current_node = "application_checker",
                              !.execution_log =
                                  Append(@, LogEntry("application_checker", "completed"))]
      ELSE [st EXCEPT !.current_node = "application_checker",
                      !.error_message = "application_checker_error",
                      !.execution_log =
                          Append(@, LogEntry("application_checker", "error"))]

\* mutant: the decision after Validate without the total_retries check
should_retry_builder_for_validation_unguarded(st) ==
    IF st.validation_errors = <<>> THEN "application_checker"
    ELSE IF st.retry_count.validation_errors < st.max_retries THEN "builder"
    ELSE "application_checker"

\* should_retry_builder_for_validation (lines 938-970)
should_retry_builder_for_validation(st) ==
    IF total_retries(st) > 10 THEN "application_checker"
    ELSE IF st.validation_errors = <<>> THEN "application_checker"
    ELSE IF st.retry_count.validation_errors < st.max_retries THEN "builder"
    ELSE "application_checker"

\* mutant: the decision after Check retries while the counter is at max_retries
should_retry_builder_or_finish_inclusive(st) ==
    IF total_retries(st) > 10 THEN "end"
    ELSE IF st.runtime_errors = <<>> THEN "end"
    ELSE IF st.retry_count.runtime_errors <= st.max_retries THEN "builder"
    ELSE "end"

\* should_retry_builder_or_finish (lines 973-1005).  The assignments of lines
\* 1001-1004 are made to the dict the graph hands to the edge function, which
\* is read from the channels for this call and dropped after it; the state of
\* the run is updated by what nodes return only.
should_retry_builder_or_finish(st) ==
    IF total_retries(st) > 10 THEN "end"
    ELSE IF st.runtime_errors = <<>> THEN "end"
    ELSE IF st.retry_count.runtime_errors < st.max_retries THEN "builder"
    ELSE "end"

\* what the stages can produce
FileLists == {<<>>, <<"App.jsx">>}
RuntimeErrorLists == {<<>>, <<"missing_files">>}

\* no event of run_agent_stream yet
NoEvent == [e |-> "none"]

\* run_agent_stream lines 343-348: the "completed" event
completed_event(final_state) ==
    [e |-> "completed", url |-> "url", success |-> final_state.success,
     files_created |-> final_state.files_created]

\* run_agent_stream lines 359-362: the "error" event
error_event == [e |-> "error", message |-> "Workflow failed"]

InitPipe ==
    /\ state = initial_state
    /\ node = "planner"
    /\ steps = 0
    /\ event = NoEvent

\* graph_builder.py lines 27-30: entry point planner, edge planner -> builder
Plan(out) ==
    /\ node = "planner"
    /\ steps < MaxSteps
    /\ state' = planner_node(state, out)
    /\ node' = "builder"
    /\ steps' = steps + 1
    /\ UNCHANGED event
    /\ UNCHANGED <<runVars, snapVars, ctxVars>>

\* a graph whose builder hands on to application_checker
Build_skipping_validation(out, files) ==
    /\ node = "builder"
    /\ steps < MaxSteps
    /\ state' = builder_node(state, out, files)
    /\ node' = "application_checker"
    /\ steps' = steps + 1
    /\ UNCHANGED event
    /\ UNCHANGED <<runVars, snapVars, ctxVars>>

\* graph_builder.py line 31: edge builder -> code_validator
Build(out, files) ==
    /\ node = "builder"
    /\ steps < MaxSteps
    /\ state' = builder_node(state, out, files)
    /\ node' = "code_validator"
    /\ steps' = steps + 1
    /\ UNCHANGED event
    /\ UNCHANGED <<runVars, snapVars, ctxVars>>

\* graph_builder.py lines 34-38: code_validator, then its conditional edge.
\* The agent loop of the validator never adds to validation_errors (line 655).
Validate(out) ==
    /\ node = "code_validator"
    /\ steps < MaxSteps
    /\ state' = code_validator_node(state, out, <<>>)
    /\ node' = should_retry_builder_for_validation(state')
    /\ steps' = steps + 1
    /\ UNCHANGED event
    /\ UNCHANGED <<runVars, snapVars, ctxVars>>

\* graph_builder.py lines 41-45: application_checker, then its conditional edge
Check(out, runtime_errors) ==
    /\ node = "application_checker"
    /\ steps < MaxSteps
    /\ state' = application_checker_node(state, out, runtime_errors)
    /\ node' = should_retry_builder_or_finish(state')
    /\ steps' = steps + 1
    /\ UNCHANGED event
    /\ UNCHANGED <<runVars, snapVars, ctxVars>>

\* run_workflow lines 76-86: ainvoke raised and the state returned is rebuilt
\* from initial_state with a one-record execution_log.  retry_count is the
\* dict object of initial_state, which the nodes update in place when the graph
\* hands it on by reference, and the initial one otherwise.
workflow_error_state(st, aliased) ==
    [initial_state EXCEPT !.retry_count = IF aliased THEN st.retry_count ELSE @,
                          !.success = FALSE,
                          !.error_message = "workflow_error",
                          !.execution_log = <<LogEntry("workflow", "error")>>]

\* run_workflow lines 73-86: the nodes catch their own exceptions, so ainvoke
\* (called without a config, line 73) raises only when the graph has not
\* reached END within its step limit, for which MaxSteps stands.
WorkflowError(aliased) ==
    /\ node \notin {"end", "failed"}
    /\ steps = MaxSteps
    /\ state' = workflow_error_state(state, aliased)
    /\ node' = "failed"
    /\ UNCHANGED <<steps, event>>
    /\ UNCHANGED <<runVars, snapVars, ctxVars>>

\* run_agent_stream lines 314-364: run_workflow has returned final_state; the
\* "completed" event is built from it and sent, or get_host or the database
\* raises and the handler sends the "error" event
send_completed(ok) ==
    /\ node \in {"end", "failed"}
    /\ event = NoEvent
    /\ event' = IF ok THEN completed_event(state) ELSE error_event
    /\ UNCHANGED <<state, node, steps>>
    /\ UNCHANGED <<runVars, snapVars, ctxVars>>

NextPipe ==
    \/ \E out \in {"completed", "error"} : Plan(out)
    \/ \E out \in {"completed", "timeout", "error", "crash"}, files \in FileLists :
          Build(out, files)
    \/ \E out \in {"completed", "timeout", "crash"} : Validate(out)
    \/ \E out \in {"completed", "crash"}, errs \in RuntimeErrorLists : Check(out, errs)
    \/ \E aliased \in BOOLEAN : WorkflowError(aliased)
    \/ \E ok \in BOOLEAN : send_completed(ok)

\* the run registries as they are after construction, no chat
IdleRun ==
    /\ chats = {}
    /\ active_sockets = [p \in Projects |-> None]
    /\ active_runs = [p \in Projects |-> None]
    /\ conn = [c \in Conns |-> [pc |-> "new", proj |-> "p1", refused |-> FALSE]]
    /\ task = [t \in Tasks |-> NoTask]
    /\ sandboxes = [p \in Projects |-> None]
    /\ project_timestamps = [p \in Projects |-> 0]
    /\ sbx = [h \in Handles |-> NoSbx]
    /\ now = sandbox_timeout

\* ------------------- context.json: agent/tools.py, agent/service.py, store.py
Texts == {"", "a", "b"}
ContextFields == {"semantic", "procedural", "episodic"}

NoCall == [op |-> "none", semantic |-> "", procedural |-> "", episodic |-> ""]

\* dict.get(k, default)
Get(d, k, default) == IF k \in DOMAIN d THEN d[k] ELSE default

\* python `x or y` on strings
Or(x, y) == IF x # "" THEN x ELSE y

\* load_json_store lines 27-38: the parsed file, {} when there is none
load_json_store(file) == IF file = <<>> THEN EmptyDict ELSE file[1]

\* mutant: a store that writes every key but the conversation history
save_json_store_without_history(data) ==
    <<[k \in DOMAIN data \ {"conversation_history"} |-> data[k]]>>

\* save_json_store lines 17-24: the file holds the data
save_json_store(data) == <<data>>

\* history[-10:]
LastOf(history, n) ==
    IF Len(history) > n
      THEN SubSeq(history, Len(history) - n + 1, Len(history))
      ELSE history

\* no context.json yet, no call yet
InitContext ==
    /\ context_json = <<>>
    /\ saves = 0
    /\ appends = 0
    /\ last_call = NoCall

\* a save_context that stores the semantic text it is given, empty or not
save_context_overwriting(semantic, procedural, episodic) ==
    /\ saves < MaxSaves
    /\ LET existing_context == load_json_store(context_json)
           context == [semantic |-> semantic,
                       procedural |-> Or(procedural, Get(existing_context, "procedural", "")),
                       episodic |-> Or(episodic, Get(existing_context, "episodic", "")),
                       last_updated |-> saves + 1,
                       files_created |-> Get(existing_context, "files_created", <<>>),
                       conversation_history |->
                           Get(existing_context, "conversation_history", <<>>)]
       IN context_json' = save_json_store(context)
    /\ saves' = saves + 1
    /\ last_call' = [op |-> "save_context", semantic |-> semantic,
                     procedural |-> procedural, episodic |-> episodic]
    /\ UNCHANGED appends
    /\ UNCHANGED <<runVars, pipeVars, snapVars>>

\* tools.py save_context lines 447-498, for a project id that is set; the
\* date of last_updated is the number of the call
save_context(semantic, procedural, episodic) ==
    /\ saves < MaxSaves
    /\ LET existing_context == load_json_store(context_json)
           context == [semantic |-> Or(semantic, Get(existing_context, "semantic", "")),
                       procedural |-> Or(procedural, Get(existing_context, "procedural", "")),
                       episodic |-> Or(episodic, Get(existing_context, "episodic", "")),
                       last_updated |-> saves + 1,
                       files_created |-> Get(existing_context, "files_created", <<>>),
                       conversation_history |->
                           Get(existing_context, "conversation_history", <<>>)]
       IN context_json' = save_json_store(context)
    /\ saves' = saves + 1
    /\ last_call' = [op |-> "save_context", semantic |-> semantic,
                     procedural |-> procedural, episodic |-> episodic]
    /\ UNCHANGED appends
    /\ UNCHANGED <<runVars, pipeVars, snapVars>>

\* a history that keeps its first entries once it is full
save_conversation_history_keep_oldest ==
    /\ appends < MaxAppends
    /\ LET context == load_json_store(context_json)
           conversation_entry == [timestamp |-> appends + 1,
                                  user_prompt |-> appends + 1,
                                  success |-> (appends % 2 = 0)]
           appended == Append(Get(context, "conversation_history", <<>>),
                              conversation_entry)
           conversation_history ==
               IF Len(appended) > history_limit
                 THEN SubSeq(appended, 1, history_limit)
                 ELSE appended
       IN context_json' = save_json_store(
              [k \in DOMAIN context \cup {"conversation_history"} |->
                  IF k = "conversation_history" THEN conversation_history
                  ELSE context[k]])
    /\ appends' = appends + 1
    /\ last_call' = [NoCall EXCEPT !.op = "save_conversation_history"]
    /\ UNCHANGED saves
    /\ UNCHANGED <<runVars, pipeVars, snapVars>>

\* service.py _save_conversation_history lines 127-161; the n-th call carries
\* the n-th prompt of the project at time n, and the requests fail and succeed
\* in turn
save_conversation_history ==
    /\ appends < MaxAppends
    /\ LET context == load_json_store(context_json)
           conversation_entry == [timestamp |-> appends + 1,
                                  user_prompt |-> appends + 1,
                                  success |-> (appends % 2 = 0)]
           appended == Append(Get(context, "conversation_history", <<>>),
                              conversation_entry)
           conversation_history == LastOf(appended, history_limit)
       IN context_json' = save_json_store(
              [k \in DOMAIN context \cup {"conversation_history"} |->
                  IF k = "conversation_history" THEN conversation_history
                  ELSE context[k]])
    /\ appends' = appends + 1
    /\ last_call' = [NoCall EXCEPT !.op = "save_conversation_history"]
    /\ UNCHANGED saves
    /\ UNCHANGED <<runVars, pipeVars, snapVars>>

NextContext ==
    \/ \E semantic, procedural, episodic \in Texts :
          save_context(semantic, procedural, episodic)
    \/ save_conversation_history

\* one workflow run on its own, no chat and no connection
InitPipeOnly == IdleRun /\ InitPipe /\ IdleSnap /\ InitContext
SpecPipe == InitPipeOnly /\ [][NextPipe]_vars

\* the decision functions on every GraphState with counters up to MaxRetryInput
DecideInputs ==
    {[initial_state EXCEPT !.retry_count = [validation_errors |-> v, runtime_errors |-> r],
                           !.validation_errors = ve, !.runtime_errors = re] :
        v \in 0..MaxRetryInput, r \in 0..MaxRetryInput,
        ve \in {<<>>, <<"timeout">>}, re \in RuntimeErrorLists}

InitDecide ==
    /\ state \in DecideInputs
    /\ node \in {"decide_validation", "decide_check"}
    /\ steps = 0
    /\ event = NoEvent

DecideValidation ==
    /\ node = "decide_validation"
    /\ node' = should_retry_builder_for_validation(state)
    /\ UNCHANGED <<state, steps, event>>
    /\ UNCHANGED <<runVars, snapVars, ctxVars>>

DecideCheck ==
    /\ node = "decide_check"
    /\ node' = should_retry_builder_or_finish(state)
    /\ UNCHANGED <<state, steps, event>>
    /\ UNCHANGED <<runVars, snapVars, ctxVars>>

NextDecide == DecideValidation \/ DecideCheck

InitDecideOnly == IdleRun /\ InitDecide /\ IdleSnap /\ InitContext
SpecDecide == InitDecideOnly /\ [][NextDecide]_vars

\* snapshot, destruction and restore of one sandbox on their own
InitSnapOnly == IdleRun /\ InitPipe /\ InitSnap /\ InitContext
SpecSnap == InitSnapOnly /\ [][NextSnap]_vars

\* the calls on the context.json of one project on their own
InitContextOnly == IdleRun /\ InitPipe /\ IdleSnap /\ InitContext
SpecContext == InitContextOnly /\ [][NextContext]_vars

Init == InitRun /\ InitPipe /\ IdleSnap /\ InitContext
Next == NextRun
Spec == Init /\ [][Next]_vars

\* the asyncio event loop runs every task that is ready
TaskStep(t) ==
    \/ run_start(t)
    \/ run_wait_socket(t)
    \/ \E out \in {"ok", "store", "send"} : run_pre(t, out)
    \/ \E ok \in BOOLEAN : acquire_extend(t, ok)
    \/ \E ok \in BOOLEAN : acquire_kill(t, ok)
    \/ \E ok \in BOOLEAN : acquire_create(t, ok)
    \/ \E ok \in BOOLEAN : acquire_settimeout(t, ok)
    \/ \E ok \in BOOLEAN : acquire_restore(t, ok)
    \/ workflow_stage(t)
    \/ workflow_return(t)
    \/ \E ok \in BOOLEAN : run_post(t, ok)
    \/ run_err(t)
    \/ run_cancelled(t)

\* distance of a task record from its end: every step of the task lowers it
Rank(tk) ==
    CASE tk.pc = "created" -> 100 + MaxStages
      [] tk.pc = "wait_socket" -> 90 + MaxStages
      [] tk.pc = "pre" -> 80 + MaxStages
      [] tk.pc \in {"acq_extend", "acq_kill"} -> 70 + MaxStages
      [] tk.pc = "acq_create" -> 60 + MaxStages
      [] tk.pc = "acq_settimeout" -> 50 + MaxStages
      [] tk.pc = "acq_restore" -> 40 + MaxStages
      [] tk.pc = "workflow" -> 30 + MaxStages - tk.stages
      [] tk.pc = "post" -> 20
      [] tk.pc = "err" -> 10
      [] OTHER -> 0

AcquirePcs == {"acq_extend", "acq_kill", "acq_create", "acq_settimeout", "acq_restore"}

\* the tasks of project p that execute run_agent_stream and have not been cancelled
RunsOf(p) == {t \in Tasks : /\ task[t].proj = p
                            /\ task[t].pc \in RunningPcs
                            /\ ~task[t].cancel}

\* a task is created for project p in this step
TaskCreated(p) == \E t \in Tasks : /\ task[t].pc = "none"
                                   /\ task'[t].pc = "created"
                                   /\ task'[t].proj = p

\* task t ends in this step
Ends(t) == task[t].pc \notin {"none", "done"} /\ task'[t].pc = "done"

\* ------------------------------------------------------------------ claims

\* C1: at every instant at most one pipeline run (a task executing
\* run_agent_stream) exists per project id.
C1_AtMostOneRunPerProject ==
    \A p \in Projects : Cardinality(RunsOf(p)) <= 1

\* C2: while a run task is registered for p no task is created for p and a
\* submission leaves the registry unchanged; once the registered run has
\* ended the registry holds no entry for p, so that the next submission passes
\* the check.
C2_RejectedWhileRegistered ==
    [][\A p \in Projects :
          /\ active_runs[p] # None => ~TaskCreated(p)
          /\ \A t \in Tasks : (Ends(t) /\ task[t].proj = p /\ active_runs[p] = t)
                                 => active_runs'[p] = None]_vars

C4_OneLiveSandbox ==
    \A h \in Handles :
        sbx[h].status = "live" =>
            /\ sandboxes[sbx[h].proj] = h
            /\ \A g \in Handles :
                  (sbx[g].status = "live" /\ sbx[g].proj = sbx[h].proj) => g = h

\* C5: acquire reuses the registered handle exactly when the session is within
\* idleTimeout and then returns it, creates nothing and sets lastAccessTime to
\* the time of the call; otherwise the stale handle is killed and unregistered
\* and the handle returned is live, registered, restored and stamped with the
\* time of the call.
C5_AcquireContract ==
    [][\A t \in Tasks :
          LET p == task[t].proj IN
          /\ (task[t].pc = "pre" /\ task'[t].pc \in AcquirePcs) =>
                (task'[t].via = "reuse" <=>
                    (sandboxes[p] # None /\ now - project_timestamps[p] < sandbox_timeout))
          /\ (task[t].pc \in AcquirePcs /\ task'[t].pc = "workflow"
                /\ task[t].via = "reuse") =>
                (/\ task'[t].sandbox = task[t].h
                 /\ sbx' = sbx
                 /\ project_timestamps'[p] = task[t].ctime)
          /\ (task[t].pc \in AcquirePcs /\ task'[t].pc \notin AcquirePcs
                /\ task[t].via = "expired") =>
                (/\ sandboxes'[p] # task[t].stale
                 /\ sbx'[task[t].stale].status = "killed")
          /\ (task[t].pc \in AcquirePcs /\ task'[t].pc = "workflow"
                /\ task[t].via # "reuse") =>
                (/\ sandboxes'[p] = task'[t].sandbox
                 /\ sbx'[task'[t].sandbox].status = "live"
                 /\ sbx'[task'[t].sandbox].restored
                 /\ project_timestamps'[p] = task[t].ctime)]_vars

\* C6: a failed kill of the stale sandbox does not make acquire fail and does
\* not leave the expired handle registered.
C6_KillBestEffort ==
    [][\A t \in Tasks :
          (task[t].pc = "acq_kill" /\ task'[t].pc # "acq_kill" /\ ~task[t].cancel) =>
              (/\ task'[t].pc = "acq_create"
               /\ sandboxes'[task[t].proj] # task[t].stale)]_vars

\* C7: when the creation of the sandbox fails no stage has run, the error
\* event is sent, the registry holds no sandbox for the project, and the run
\* leaves the active-run registry when it ends.
C7_CreateFailureFatal ==
    [][\A t \in Tasks :
          LET p == task[t].proj IN
          /\ (task[t].pc = "acq_create" /\ task'[t].failed = "create") =>
                (/\ task'[t].stages = 0
                 /\ task'[t].ev = "error"
                 /\ task'[t].pc = "err"
                 /\ sandboxes'[p] = None)
          /\ (task[t].failed = "create" /\ Ends(t)) => active_runs'[p] # t]_vars

\* a Validate / Check invocation happens in this step
ValidateStep == node = "code_validator" /\ steps' = steps + 1
CheckStep == node = "application_checker" /\ steps' = steps + 1
CheckCompleted ==
    /\ CheckStep
    /\ Len(state'.execution_log) = Len(state.execution_log) + 1
    /\ state'.execution_log[Len(state'.execution_log)] =
          LogEntry("application_checker", "completed")

\* C8: after Validate, with the retry sum not above 10, the next stage is Build
\* exactly when the validation-error list is non-empty and
\* retryCount[validationErrors] < maxRetries, and that transition increments
\* the counter by one; otherwise the next stage is Check.
C8_ValidateDecision ==
    [][(ValidateStep /\ total_retries(state) <= 10) =>
          /\ node' \in {"builder", "application_checker"}
          /\ node' = "builder" <=>
                (/\ state'.validation_errors # <<>>
                 /\ state.retry_count.validation_errors < state.max_retries)
          /\ node' = "builder" =>
                state'.retry_count.validation_errors =
                    state.retry_count.validation_errors + 1]_vars

\* C9: after a Check that reported its list, with the retry sum not above 10:
\* an empty list ends the run with success, a non-empty list with
\* retryCount[runtimeErrors] < maxRetries goes to Build and increments the
\* counter by one, a non-empty list with exhausted retries ends the run without
\* success.
C9_CheckDecision ==
    [][(CheckCompleted /\ total_retries(state) <= 10) =>
          /\ state'.runtime_errors = <<>> => (node' = "end" /\ state'.success)
          /\ (/\ state'.runtime_errors # <<>>
              /\ state.retry_count.runtime_errors < state.max_retries) =>
                (/\ node' = "builder"
                 /\ state'.retry_count.runtime_errors =
                        state.retry_count.runtime_errors + 1)
          /\ (/\ state'.runtime_errors # <<>>
              /\ state.retry_count.runtime_errors >= state.max_retries) =>
                (node' = "end" /\ ~state'.success)]_vars

\* C10: circuit breaker: when the sum of the retry counters is above 10 at a
\* decision point the decision is Check (after Validate) or Done (after Check),
\* never Build, whatever the error lists and counters are.
C10_CircuitBreaker ==
    [][total_retries(state) > 10 =>
          /\ node = "decide_validation" => node' = "application_checker"
          /\ node = "decide_check" => node' = "end"]_vars

\* C10 witness: a decision was taken with the sum above 10, a non-empty error
\* list and the category counter below max_retries.
C10_Witness ==
    /\ total_retries(state) > 10
    /\ \/ /\ node = "application_checker"
          /\ state.validation_errors # <<>>
          /\ state.retry_count.validation_errors < state.max_retries
       \/ /\ node = "end"
          /\ state.runtime_errors # <<>>
          /\ state.retry_count.runtime_errors < state.max_retries

\* a stage is invoked in this step
StageStep == steps' = steps + 1

\* C11: retry_count[c] starts at zero and changes only by the increment of one
\* that goes with a transition back to Build caused by category c: Validate
\* followed by Build for validation_errors, Check followed by Build for
\* runtime_errors.
C11_RetryCountCountsRetries ==
    /\ [](steps = 0 => total_retries(state) = 0)
    /\ [][StageStep =>
             /\ state'.retry_count.validation_errors =
                   state.retry_count.validation_errors +
                     (IF node = "code_validator" /\ node' = "builder" THEN 1 ELSE 0)
             /\ state'.retry_count.runtime_errors =
                   state.retry_count.runtime_errors +
                     (IF node = "application_checker" /\ node' = "builder" THEN 1 ELSE 0)]_vars

\* C12: no retry counter ever exceeds max_retries, and a decision taken with
\* the counter of its category at max_retries never goes back to Build.
C12_RetryCountCapped ==
    /\ [](/\ state.retry_count.validation_errors <= state.max_retries
          /\ state.retry_count.runtime_errors <= state.max_retries)
    /\ [][/\ (ValidateStep /\ state'.retry_count.validation_errors >= state'.max_retries)
                => node' # "builder"
          /\ (CheckStep /\ state'.retry_count.runtime_errors >= state'.max_retries)
                => node' # "builder"]_vars

\* C12 witness: the run has ended through the exhaustion of the runtime
\* category, its counter at max_retries.
C12_Witness ==
    /\ node = "end"
    /\ state.runtime_errors # <<>>
    /\ state.retry_count.runtime_errors = state.max_retries

\* C13: with the default budgets the sum of the retry counters never exceeds
\* the global ceiling 10.
C13_RetrySumBelowCeiling == total_retries(state) <= 10

\* C13 witness: a run whose counters have reached the largest sum the default
\* budgets allow.
C13_Witness ==
    /\ total_retries(state) = state.max_retries
    /\ state.execution_log # <<>>

\* number of records of node n with the given status in a log
CountLog(log, n, status) ==
    Cardinality({i \in 1..Len(log) : log[i] = LogEntry(n, status)})

\* the validator reported an error on its first three invocations and none on
\* the fourth, which has just returned; no stage timed out and Check has not run
ThreeErrorsThenClean ==
    /\ steps = Len(state.execution_log)
    /\ steps > 0
    /\ state.execution_log[steps] = LogEntry("code_validator", "completed")
    /\ CountLog(state.execution_log, "code_validator", "completed") = 1
    /\ CountLog(state.execution_log, "code_validator", "error") = 3
    /\ CountLog(state.execution_log, "application_checker", "completed") = 0
    /\ CountLog(state.execution_log, "application_checker", "error") = 0

\* builder records of a log, whatever their status
BuildVisits(log) ==
    Cardinality({i \in 1..Len(log) : log[i].node = "builder"})

\* C14: when Validate reports an error on its first three invocations and none
\* on the fourth, Build has been visited 4 times, the validation counter is 3
\* and the next stage is Check; a Validate that still reports an error after
\* three erroneous invocations goes to Check as well.
C14_BoundedRepairLoop ==
    /\ [](ThreeErrorsThenClean =>
             /\ BuildVisits(state.execution_log) = 4
             /\ state.retry_count.validation_errors = 3
             /\ node = "application_checker")
    /\ [][(/\ ValidateStep
           /\ state'.validation_errors # <<>>
           /\ steps = Len(state.execution_log)
           /\ CountLog(state.execution_log, "code_validator", "error") = 3
           /\ CountLog(state.execution_log, "code_validator", "completed") = 0)
             => node' = "application_checker"]_vars

\* the run has ended, every stage invocation completed (no exception, no
\* timeout) and Check ran once and reported an empty list
HappyRun ==
    /\ node = "end"
    /\ steps = Len(state.execution_log)
    /\ \A i \in 1..Len(state.execution_log) :
           state.execution_log[i].status = "completed"
    /\ CountLog(state.execution_log, "application_checker", "completed") = 1
    /\ state.runtime_errors = <<>>

\* C15: on the happy path the run visits planner, builder, code_validator and
\* application_checker once each, in that order, and ends with success true,
\* current_node application_checker and both retry counters 0.
C15_HappyPath ==
    HappyRun =>
        /\ state.execution_log =
              <<LogEntry("planner", "completed"), LogEntry("builder", "completed"),
                LogEntry("code_validator", "completed"),
                LogEntry("application_checker", "completed")>>
        /\ state.success
        /\ state.current_node = "application_checker"
        /\ state.retry_count = [validation_errors |-> 0, runtime_errors |-> 0]

\* C15 witness: a run that ended with success after four stage invocations
C15_Witness ==
    /\ node = "end"
    /\ steps = 4
    /\ state.success
    /\ state.plan = "plan"

\* C16: success is false when the run starts, becomes true only in a Check
\* invocation that completed with an empty runtime_errors list, holds only
\* while that Check is the last stage that ran, and no Build follows it.
C16_SuccessOnlyByCleanCheck ==
    /\ [](steps = 0 => ~state.success)
    /\ [][(~state.success /\ state'.success) =>
              (CheckCompleted /\ state'.runtime_errors = <<>>)]_vars
    /\ [](state.success =>
              /\ state.runtime_errors = <<>>
              /\ state.execution_log # <<>>
              /\ state.execution_log[Len(state.execution_log)] =
                    LogEntry("application_checker", "completed")
              /\ node = "end")
    /\ [][state.success => node' # "builder"]_vars

\* C16 witness: a run that ended with success after a repair
C16_Witness ==
    /\ state.success
    /\ node = "end"
    /\ state.retry_count.runtime_errors > 0

\* C17: the retry budget bounds the re-entries of Build: every transition from
\* Validate or Check back to Build uses up budget (the sum of the retry
\* counters grows), the sum never exceeds 11, and a run that has not reached
\* END always has a next stage to run.
C17_RetryBudgetBoundsBuild ==
    /\ [][(StageStep /\ node \in {"code_validator", "application_checker"}
              /\ node' = "builder")
             => total_retries(state') > total_retries(state)]_vars
    /\ [](total_retries(state) <= 11)
    /\ []((node \notin {"end", "failed"} /\ steps < MaxSteps) =>
             node \in {"planner", "builder", "code_validator", "application_checker"})

\* a Validate invocation that completed (no timeout, no exception)
ValidateCompleted ==
    /\ ValidateStep
    /\ Len(state'.execution_log) = Len(state.execution_log) + 1
    /\ state'.execution_log[Len(state'.execution_log)] =
          LogEntry("code_validator", "completed")

\* C18: a Validate that raised or timed out leaves an empty validation_errors
\* list and is followed by Check; a Check that raised is followed by END;
\* neither goes back to Build.
C18_StageFailureNeutral ==
    [][/\ (ValidateStep /\ ~ValidateCompleted) =>
             (/\ state'.validation_errors = <<>>
              /\ node' = "application_checker")
       /\ (CheckStep /\ ~CheckCompleted) => node' = "end"]_vars

\* s is a prefix of t
IsPrefix(s, t) == Len(s) <= Len(t) /\ SubSeq(t, 1, Len(s)) = s

\* C19: execution_log is append-only: in every step of a run, the return of
\* run_workflow included, the old log is a prefix of the new one.
C19_LogAppendOnly ==
    [][IsPrefix(state.execution_log, state'.execution_log)]_vars

\* C20: after snapshot, destruction and restore every file of the fresh sandbox
\* is a file of the original sandbox and holds exactly its original content
\* (stated for a sandbox that was not edited after its snapshot).
C20_RoundTrip ==
    (\A q \in FilePaths : sandbox_files[q] \in {NoFile, ContentOf(q)}) =>
        \A q \in FilePaths :
            restored_files[q] # NoFile =>
                (sandbox_files[q] # NoFile /\ restored_files[q] = sandbox_files[q])

\* a step of the loop of snapshot_project_files over one listed file
SnapshotFileStep ==
    snap_pc = "snapshot" /\ todo # <<>> /\ todo' = Tail(todo) /\ snap_pc' = "snapshot"

\* C21: a snapshot lists exactly the paths it has read and written: each step
\* of the loop either writes the blob of the file with its sandbox content and
\* appends its path, or (read failure) changes neither the list nor any blob;
\* the paths listed so far are kept; the metadata written at the end is that
\* list; every path of the metadata has a blob; and a snapshot under way can
\* always go on, whatever reads have failed.
C21_MetadataListsCaptured ==
    /\ [](\A i \in 1..Len(metadata) : disk_files[local_file(metadata[i])] # NoFile)
    /\ [](snap_pc = "snapshot" =>
             ENABLED (snapshot_metadata \/ \E ok \in BOOLEAN : snapshot_file(ok)))
    /\ [][/\ SnapshotFileStep =>
               \/ /\ files_stored' = Append(files_stored, Head(todo))
                  /\ disk_files' = [disk_files EXCEPT ![local_file(Head(todo))] =
                                       sandbox_files[Head(todo)]]
                  /\ sandbox_files[Head(todo)] # NoFile
               \/ /\ files_stored' = files_stored
                  /\ disk_files' = disk_files
          /\ (snap_pc = "snapshot" /\ snap_pc' = "snapshotted") =>
               /\ metadata' = files_stored
               /\ \A i \in 1..Len(files_stored) :
                      disk_files'[local_file(files_stored[i])] # NoFile]_vars

\* a snapshot has returned that lists one file and has skipped another
C21_Witness ==
    /\ snap_pc = "snapshotted"
    /\ Len(metadata) = 1
    /\ Cardinality({q \in FilePaths : sandbox_files[q] # NoFile}) = 2
    /\ disk_files[local_file(metadata[1])] = sandbox_files[metadata[1]]

\* C22: a snapshot is atomic for readers: as long as metadata.json is the one
\* of the prior snapshot, every blob it lists is the one the prior snapshot
\* wrote.
C22_SnapshotAtomic ==
    [][metadata' = metadata =>
         \A i \in 1..Len(metadata) :
            disk_files'[local_file(metadata[i])] = disk_files[local_file(metadata[i])]]_vars

\* context.json as load_json_store returns it
StoredContext == load_json_store(context_json)

C25_EventFailureSwallowed ==
    [][\A t \in Tasks :
          (task[t].pc = "pre" /\ ~task[t].cancel /\ task'[t].pc # "pre"
              /\ task'[t].failed # "pre")
            => task'[t].pc \in AcquirePcs]_vars

\* C26: the last event of a run carries a boolean success and, when the run
\* has failed, the error message and the full execution log of the final
\* state.
C26_FinalEventComplete ==
    event.e # "none" =>
        /\ "success" \in DOMAIN event
        /\ event.success \in BOOLEAN
        /\ ~event.success =>
              /\ "error_message" \in DOMAIN event
              /\ "execution_log" \in DOMAIN event
              /\ event.execution_log = state.execution_log

\* C27: a disconnect cancels the run registered for the project and removes
\* the active-run entry; neither the disconnect nor the cancellation it causes
\* changes the sandbox registry, its timestamps or any sandbox; and an acquire
\* that finds the handle registered within sandbox_timeout of its timestamp
\* takes that handle without killing or creating one, and returns it when it
\* is still the one registered.
C27_DisconnectKeepsSession ==
    [][/\ \A c \in Conns :
             (conn[c].pc = "recv" /\ conn'[c].pc = "closed") =>
                LET p == conn[c].proj
                    r == active_runs[p]
                IN /\ active_runs'[p] = None
                   /\ (r # None /\ task[r].pc # "done") => task'[r].cancel
                   /\ sandboxes' = sandboxes
                   /\ project_timestamps' = project_timestamps
                   /\ sbx' = sbx
       /\ \A t \in Tasks :
             /\ (task[t].cancel /\ Ends(t)) =>
                   /\ sandboxes' = sandboxes
                   /\ project_timestamps' = project_timestamps
                   /\ sbx' = sbx
                   /\ active_runs'[task[t].proj] # t
             /\ (/\ task[t].pc = "pre"
                 /\ task'[t].pc \in AcquirePcs
                 /\ sandboxes[task[t].proj] # None
                 /\ now - project_timestamps[task[t].proj] < sandbox_timeout) =>
                   /\ task'[t].pc = "acq_extend"
                   /\ task'[t].h = sandboxes[task[t].proj]
                   /\ sandboxes' = sandboxes
                   /\ sbx' = sbx
             /\ (/\ task[t].pc = "acq_extend"
                 /\ task'[t].pc = "workflow"
                 /\ sandboxes[task[t].proj] = task[t].h) =>
                   /\ task'[t].sandbox = task[t].h
                   /\ sandboxes' = sandboxes
                   /\ sbx' = sbx]_vars

\* the client of a run that holds its sandbox has disconnected: the run is
\* cancelled and unregistered, its handle is registered and live
C27_Witness ==
    \E t \in Tasks :
        /\ task[t].pc = "workflow"
        /\ task[t].cancel
        /\ active_runs[task[t].proj] = None
        /\ sandboxes[task[t].proj] = task[t].sandbox
        /\ sbx[task[t].sandbox].status = "live"
        /\ \E c \in Conns : conn[c].pc = "closed"

\* C28: the stages run one at a time in the order of the graph: Plan is the
\* first stage and runs exactly once; the stage after Plan is Build; the stage
\* after Build is Validate, whatever Build has returned; Validate is entered
\* only from Build and Check only from Validate, so every Check comes directly
\* after the Validate of the most recent Build.
C28_StageOrder ==
    /\ [](node = "planner" <=> steps = 0)
    /\ [][StageStep =>
            /\ node \in {"planner", "builder", "code_validator", "application_checker"}
            /\ node = "planner" => node' = "builder"
            /\ node = "builder" => node' = "code_validator"
            /\ node = "code_validator" => node' \in {"builder", "application_checker"}
            /\ node = "application_checker" => node' \in {"builder", "end"}
            /\ node' = "code_validator" => node = "builder"
            /\ node' = "application_checker" => node = "code_validator"
            /\ node' # "planner"]_vars
    /\ [][~StageStep => (node' = node \/ node' = "failed")]_vars

\* Check is entered after a second Build and its Validate
C28_Witness ==
    /\ node = "application_checker"
    /\ steps >= 5
    /\ BuildVisits(state.execution_log) >= 2

\* C29: whenever Build is entered again as a retry, current_errors maps exactly
\* the category that caused the retry to the error list that caused it:
\* validation_errors after Validate, runtime_errors after Check.
C29_RetryCarriesTriggeringErrors ==
    [][(StageStep /\ node' = "builder") =>
          /\ node = "code_validator" =>
                state'.current_errors =
                    Dict1("validation_errors", state'.validation_errors)
          /\ node = "application_checker" =>
                state'.current_errors =
                    Dict1("runtime_errors", state'.runtime_errors)]_vars

\* C30: files_created and files_modified only grow during a run: in every
\* step the old list is a prefix of the new one.
C30_FilesAppendOnly ==
    [][/\ IsPrefix(state.files_created, state'.files_created)
       /\ IsPrefix(state.files_modified, state'.files_modified)]_vars

\* C31: every stage invocation appends exactly one record to execution_log, and
\* the record of a crashed or timed-out invocation has a status other than
\* "completed"; so the log is as long as the number of invocations.
C31_OneRecordPerInvocation ==
    /\ [][StageStep =>
            /\ Len(state'.execution_log) = Len(state.execution_log) + 1
            /\ state'.execution_log[Len(state'.execution_log)].node = node]_vars
    /\ [](node # "failed" => Len(state.execution_log) = steps)

\* the message of should_retry_builder_or_finish lines 1002-1004
RetriesExhaustedMessage == "Failed after max_retries retries for runtime errors"

\* C32: when Check reports runtime errors and the run ends because the runtime
\* retries are exhausted, the final state has success False and an
\* error_message that records the exhaustion.
C32_ExhaustionRecorded ==
    [][(CheckCompleted /\ state'.runtime_errors # <<>> /\ node' = "end") =>
          /\ state'.success = FALSE
          /\ state'.error_message = RetriesExhaustedMessage]_vars

\* a step of the loop of _restore_files_from_disk over one listed path
RestoreFileStep == snap_pc = "restore" /\ snap_pc' = "restore"

\* C33: a restore without metadata writes nothing; a restore with metadata
\* visits every listed path in turn: each step either writes the blob of the
\* path to the sandbox or, when the blob is missing or the read or write
\* fails, leaves the sandbox as it is, and in both cases goes on with the
\* remaining paths; the restore can always go on and ends only when every
\* listed path has been visited.
C33_RestoreSkipsFailures ==
    /\ []((snap_pc \in {"restore", "restored"} /\ metadata = <<>>) =>
             \A q \in FilePaths : restored_files[q] = NoFile)
    /\ [](snap_pc = "restore" =>
             ENABLED (restore_end \/ \E ok \in BOOLEAN : restore_file(ok)))
    /\ [][/\ (snap_pc # "restore" /\ snap_pc' = "restore") => todo' = metadata
          /\ RestoreFileStep =>
                /\ todo # <<>>
                /\ todo' = Tail(todo)
                /\ \/ /\ disk_files[local_file(Head(todo))] # NoFile
                      /\ restored_files' =
                            [restored_files EXCEPT ![Head(todo)] =
                                disk_files[local_file(Head(todo))]]
                   \/ restored_files' = restored_files
          /\ (snap_pc = "restore" /\ snap_pc' = "restored") =>
                /\ todo = <<>>
                /\ restored_files' = restored_files]_vars

\* a restore has ended that skipped the first listed file and restored the
\* second
C33_Witness ==
    /\ snap_pc = "restored"
    /\ Len(metadata) = 2
    /\ restored_files[metadata[1]] = NoFile
    /\ restored_files[metadata[2]] = disk_files[local_file(metadata[2])]
    /\ restored_files[metadata[2]] # NoFile

\* the connections whose listener has accepted its socket for project p
Accepted(p) == {c \in Conns : conn[c].proj = p /\ conn[c].pc \in {"recv", "admit"}}

\* C34: at every instant at most one accepted connection exists per project;
\* a connection never replaces a registered sink; and the teardown of a
\* connection that is not the registered sink neither removes the sink nor
\* cancels a run.
C34_SingleSink ==
    /\ [](\A p \in Projects : Cardinality(Accepted(p)) <= 1)
    /\ [][\A p \in Projects :
            /\ active_sockets[p] # None =>
                  active_sockets'[p] \in {active_sockets[p], None}
            /\ \A c \in Conns :
                  (/\ conn[c].proj = p
                   /\ conn[c].pc = "recv"
                   /\ conn'[c].pc = "closed"
                   /\ active_sockets[p] # c) =>
                     /\ active_sockets'[p] = active_sockets[p]
                     /\ active_runs'[p] = active_runs[p]
                     /\ \A t \in Tasks : task'[t].cancel = task[t].cancel]_vars

\* C35: every stage call of a run obtains the handle from the session manager,
\* so after each stage invocation the timestamp of the project is the time of
\* that invocation.
C35_StageRefreshesTimestamp ==
    [][\A t \in Tasks :
          (task[t].pc = "workflow" /\ task'[t].stages = task[t].stages + 1) =>
              project_timestamps'[task[t].proj] = now]_vars

\* C36: a run task that ends unregisters only its own entry of the active
\* runs: when the entry of its project names another (newer) task, the ending
\* of the task, the late cleanup of a cancelled one included, leaves that
\* entry in place.
C36_UnregistersOnlyOwnEntry ==
    [][\A t \in Tasks :
          (Ends(t) /\ active_runs[task[t].proj] # t) =>
              active_runs'[task[t].proj] = active_runs[task[t].proj]]_vars

\* C37: a handle returned on the reuse path has had its restore run to
\* completion, and a sandbox whose restore after creation was interrupted, by
\* an exception or by cancellation, is not left registered.
C37_ReusedHandleRestored ==
    /\ [][\A t \in Tasks :
             (task[t].pc = "acq_extend" /\ task'[t].pc = "workflow") =>
                 sbx'[task'[t].sandbox].restored]_vars
    /\ [][\A t \in Tasks :
             (task[t].pc = "acq_restore" /\ task'[t].pc \in {"err", "done"}) =>
                 sandboxes'[task[t].proj] # task[t].h]_vars

C39_RefusedQueryStartsNoRun ==
    [][\A c \in Conns :
          (conn[c].pc = "admit" /\ conn[c].refused) =>
              ~(conn'[c].pc = "recv" /\ TaskCreated(conn[c].proj))]_vars

\* the stage has a record in the log
Executed(n) == \E i \in 1..Len(state.execution_log) : state.execution_log[i].node = n

\* C40: the workflow ends only from Check: the run leaves the graph from the
\* application checker only, and in every run whose workflow has ended Plan has
\* run exactly once, Build, Validate and Check at least once each (four stage
\* calls or more, a Validate before every Check), and current_node is the
\* application checker, whatever stages crashed or timed out on the way.
C40_DoneOnlyFromCheck ==
    /\ [][(node # node' /\ node' \in {"end", "failed"}) =>
              node = "application_checker"]_vars
    /\ [][(StageStep /\ node' = "application_checker") => node = "code_validator"]_vars
    /\ [](node \in {"end", "failed"} =>
             /\ state.current_node = "application_checker"
             /\ Cardinality({i \in 1..Len(state.execution_log) :
                                 state.execution_log[i].node = "planner"}) = 1
             /\ Executed("builder")
             /\ Executed("application_checker")
             /\ steps >= 4)

====
